---- MODULE Spec2Model ----
(***************************************************************************)
(* Model of blackjack_macros/src/blackjack_lua_module.rs: the attribute    *)
(* macro that exports Rust functions of an inline module to Lua.           *)
(*                                                                         *)
(* Two parts.  The generation part models collect_lua_attr, LuaFnAttrs::   *)
(* parse, unwrap_result, analyze_lua_fn and blackjack_lua_module2 as       *)
(* operators over syntax trees (SpecGen applies them to bounded modules).  *)
(* The runtime part executes the code the macro emits: the aggregate       *)
(* registration routine, the per-function registration routines and the    *)
(* __inner wrappers, against a Lua state with tables and userdata handles  *)
(* (Spec).                                                                 *)
(***************************************************************************)
EXTENDS Integers, Sequences, FiniteSets, TLC

VARIABLES
    module,     \* the syn::ItemMod handed to blackjack_lua_module2
    genResult,  \* "none" before the macro ran, then "ok" | "err" | "panic"
    genError,   \* the syn::Error message of an Err result, "" otherwise
    output,     \* the emitted token stream (NoOutput when nothing is emitted)
    globals,    \* lua.globals(): table name -> the table's entries [key, w]
    regPc,      \* __blackjack_register_lua_fns: "idle", "run", "done", "panic"
    regIdx,     \* index of the next register call of the aggregate routine
    regLog,     \* the per-function registration routines invoked so far
    pc,         \* wrapper invocation: "idle", "borrow", "exit"
    cur,        \* the invocation in flight: wrapper, arguments, next borrow, native outcome
    held,       \* the Ref / RefMut guards the invocation holds, in order
    borrowSt,   \* per userdata handle: its RefCell borrow state
    mutated,    \* the handles whose object the invocation's native call mutated
    result      \* the mlua::Result the invocation returns

vars == <<module, genResult, genError, output, globals, regPc, regIdx, regLog,
          pc, cur, held, borrowSt, mutated, result>>

genVars == <<module, genResult, genError, output>>
regVars == <<globals, regPc, regIdx, regLog>>
callVars == <<pc, cur, held, borrowSt, mutated, result>>

(***************************************************************************)
(* Bounds of the model.                                                    *)
(***************************************************************************)
MaxAttrs == 3
MaxParams == 2
MaxItems == 3

SeqsUpTo(S, n) == UNION {[1..k -> S] : k \in 0..n}

Min(S) == CHOOSE x \in S : \A y \in S : x <= y

None == [some |-> FALSE, val |-> ""]
Some(v) == [some |-> TRUE, val |-> v]

(***************************************************************************)
(* Syntax trees (syn).                                                     *)
(***************************************************************************)
Seg(name) == [ident |-> name, bracketed |-> FALSE, args |-> <<>>]
PathT(name) == [tag |-> "path", mut |-> FALSE, segs |-> <<Seg(name)>>]
RefT(name) == [tag |-> "ref", mut |-> FALSE, segs |-> <<Seg(name)>>]
RefMutT(name) == [tag |-> "ref", mut |-> TRUE, segs |-> <<Seg(name)>>]
TypeArg(name) == [kind |-> "type", ty |-> name]
LifetimeArg(name) == [kind |-> "lifetime", ty |-> name]
GenSeg(name, args) == [ident |-> name, bracketed |-> TRUE, args |-> args]
GenericT(segs) == [tag |-> "path", mut |-> FALSE, segs |-> segs]
TupleT == [tag |-> "tuple", mut |-> FALSE, segs |-> <<>>]

\* ReturnType::Default is written NoRet; ReturnType::Type(_, t) is t.
NoRet == [tag |-> "default", mut |-> FALSE, segs |-> <<>>]

\* The unit type `()` and the handle type the wrappers take.
UnitT == [tag |-> "unit", mut |-> FALSE, segs |-> <<>>]
AnyUserData == [tag |-> "path", mut |-> FALSE, segs |-> <<Seg("mlua"), Seg("AnyUserData")>>]

R_i32 == PathT("i32")
R_Result == GenericT(<<GenSeg("Result", <<TypeArg("i32")>>)>>)
R_Result2 == GenericT(<<GenSeg("Result", <<TypeArg("i32"), TypeArg("String")>>)>>)
R_StdResult == GenericT(<<Seg("std"), Seg("result"),
                          GenSeg("Result", <<TypeArg("i32"), TypeArg("String")>>)>>)
R_Option == GenericT(<<GenSeg("Option", <<TypeArg("i32")>>)>>)
R_BareResult == PathT("Result")
R_LtResult == GenericT(<<GenSeg("Result", <<LifetimeArg("a"), TypeArg("i32")>>)>>)

RetTypes == {NoRet, R_i32, R_Result, R_Result2, R_StdResult, R_Option,
             R_BareResult, R_LtResult, TupleT}

\* Function arguments: syn::FnArg::Receiver, or FnArg::Typed with a pattern
\* (an identifier, or another pattern such as a tuple) and a type.
Receiver == [kind |-> "receiver", pat |-> "self", ty |-> TupleT]
Typed(pat, ty) == [kind |-> "typed", pat |-> pat, ty |-> ty]

TypedIdentArgs == {Typed("ident", t) : t \in {PathT("i32"), RefT("Mesh"), RefMutT("Mesh"),
                                              RefT("Other"), RefMutT("Other")}}
ArgShapes == TypedIdentArgs \cup {Receiver, Typed("tuple", PathT("i32"))}

ParamNames == <<"p1", "p2", "p3", "p4">>
FnNames == <<"f1", "f2", "f3", "f4", "f5">>

\* An argument list: parameter i is named ParamNames[i]; a receiver comes first.
Inputs(shapes) == [i \in 1..Len(shapes) |->
                     [kind |-> shapes[i].kind,
                      name |-> IF shapes[i].kind = "receiver" THEN "self" ELSE ParamNames[i],
                      pat |-> shapes[i].pat, ty |-> shapes[i].ty]]

InputShapes(S) == {s \in SeqsUpTo(S, MaxParams) : \A i \in 2..Len(s) : s[i].kind # "receiver"}

\* Attributes: a path and, for #[lua(...)], the comma separated key = value list.
KV(key, isStr, val) == [key |-> key, isStr |-> isStr, val |-> val]
Attr(path, args) == [path |-> path, args |-> args]
LuaOps == Attr(<<"lua">>, <<KV("under", TRUE, "Ops")>>)
LuaFoo == Attr(<<"lua">>, <<KV("under", TRUE, "Foo")>>)
LuaNoUnder == Attr(<<"lua">>, <<KV("other", TRUE, "x")>>)
LuaBad == Attr(<<"lua">>, <<KV("under", FALSE, "5")>>)
AttrInline == Attr(<<"inline">>, <<>>)
AttrSkip == Attr(<<"rustfmt", "skip">>, <<>>)
AttrShapes == {LuaOps, LuaFoo, LuaNoUnder, LuaBad, AttrInline, AttrSkip}

Fn(attrs, generics, asyncness, inputs, ret) ==
    [kind |-> "fn", ident |-> "f", attrs |-> attrs, generics |-> generics,
     asyncness |-> asyncness, inputs |-> inputs, output |-> ret]
ImplItem == [kind |-> "impl", ident |-> "", attrs |-> <<>>, generics |-> 0,
             asyncness |-> FALSE, inputs |-> <<>>, output |-> NoRet]
StructItem == [kind |-> "other", ident |-> "", attrs |-> <<>>, generics |-> 0,
               asyncness |-> FALSE, inputs |-> <<>>, output |-> NoRet]

\* A module whose i-th member is named FnNames[i] (names in a module are distinct).
Module(inline, shapes) ==
    [inline |-> inline,
     items |-> [i \in 1..Len(shapes) |->
                  IF shapes[i].kind = "fn" THEN [shapes[i] EXCEPT !.ident = FnNames[i]]
                  ELSE shapes[i]]]

(***************************************************************************)
(* LuaFnAttrs::parse.                                                      *)
(***************************************************************************)
RECURSIVE ParseProps(_, _, _)
ParseProps(props, i, under) ==
    IF i > Len(props) THEN [ok |-> TRUE, under |-> under]
    ELSE IF props[i].key = "under"
         THEN IF props[i].isStr
              THEN ParseProps(props, i + 1, Some(props[i].val))
              ELSE [ok |-> FALSE, under |-> None]
         ELSE ParseProps(props, i + 1, under)

LuaFnAttrsParse(args) == ParseProps(args, 1, None)

(***************************************************************************)
(* unwrap_result.                                                          *)
(***************************************************************************)
UnwrapResult(typ) ==
    IF /\ typ.tag = "path"
       /\ Len(typ.segs) > 0
       /\ typ.segs[1].ident = "Result"
       /\ typ.segs[1].bracketed
       /\ Len(typ.segs[1].args) > 0
       /\ typ.segs[1].args[1].kind = "type"
    THEN Some(typ.segs[1].args[1].ty)
    ELSE None

(***************************************************************************)
(* analyze_lua_fn.                                                         *)
(***************************************************************************)
ArgKind(ty) == IF ty.tag = "ref" THEN (IF ty.mut THEN "RefMut" ELSE "Ref") ELSE "Owned"

\* The WrapperArg pushed for one typed argument.
WrapperArg(arg) ==
    [kind |-> ArgKind(arg.ty),
     typ |-> IF arg.ty.tag = "ref" THEN [arg.ty EXCEPT !.tag = "path", !.mut = FALSE]
             ELSE arg.ty,
     name |-> arg.name]

\* The loop over item_fn.sig.inputs: the first receiver returns Err, the first
\* non-identifier pattern hits todo!().
WrapperFnArgs(inputs) ==
    LET bad == {i \in 1..Len(inputs) :
                  inputs[i].kind = "receiver" \/ inputs[i].pat # "ident"}
    IN  IF bad = {} THEN [status |-> "ok", args |-> [i \in 1..Len(inputs) |-> WrapperArg(inputs[i])]]
        ELSE IF inputs[Min(bad)].kind = "receiver"
             THEN [status |-> "err", args |-> <<>>]
             ELSE [status |-> "panic", args |-> <<>>]

SignatureKeepsTypes(wargs) ==
    [i \in 1..Len(wargs) |-> [name |-> wargs[i].name, typ |-> wargs[i].typ]]

Signature(wargs) ==
    [i \in 1..Len(wargs) |->
       [name |-> wargs[i].name,
        typ |-> IF wargs[i].kind = "Owned" THEN wargs[i].typ ELSE AnyUserData]]

\* The `let name = name.borrow::<typ>()?;` statements, in argument order.
Borrows(wargs) ==
    SelectSeq([i \in 1..Len(wargs) |->
                 [name |-> wargs[i].name, kind |-> wargs[i].kind,
                  typ |-> wargs[i].typ, slot |-> i]],
              LAMBDA b : b.kind # "Owned")

InvokeArgs(wargs) == [i \in 1..Len(wargs) |-> [name |-> wargs[i].name, kind |-> wargs[i].kind]]

RetTyp(ret) ==
    IF ret.tag = "default" THEN UnitT
    ELSE IF UnwrapResult(ret).some THEN PathT(UnwrapResult(ret).val) ELSE ret

RetIsResult(ret) == ret.tag # "default" /\ UnwrapResult(ret).some

RegisterFnIdent(ident) == <<"__blackjack_export_", ident, "_to_lua">>

\* The table the generated registration routine looks up in lua.globals().
RegisterTable(attrs) == "Ops"

NoDef == [register_fn_ident |-> <<>>, table |-> "", key |-> "", fn |-> "",
          signature |-> <<>>, borrows |-> <<>>, invoke_args |-> <<>>,
          ret_typ |-> UnitT, ret_is_result |-> FALSE]

\* The checks analyze_lua_fn starts with: the error message, "" when they pass.
SigCheckNoAsync(item_fn) ==
    IF item_fn.generics > 0
    THEN "Functions exported to lua can't have generic parameters."
    ELSE ""

SigCheck(item_fn) ==
    IF item_fn.generics > 0
    THEN "Functions exported to lua can't have generic parameters."
    ELSE IF item_fn.asyncness
    THEN "Functions exported to lua can't be marked async."
    ELSE ""

AnalyzeLuaFn(item_fn, attrs) ==
    IF SigCheck(item_fn) # ""
    THEN [status |-> "err", def |-> NoDef, msg |-> SigCheck(item_fn)]
    ELSE LET w == WrapperFnArgs(item_fn.inputs)
         IN  IF w.status = "err"
             THEN [status |-> "err", def |-> NoDef, msg |-> "Can't use self here."]
             ELSE IF w.status = "panic"
             THEN [status |-> "panic", def |-> NoDef, msg |-> ""]
             ELSE [status |-> "ok", msg |-> "",
                   def |-> [register_fn_ident |-> RegisterFnIdent(item_fn.ident),
                            table |-> RegisterTable(attrs),
                            key |-> item_fn.ident,
                            fn |-> item_fn.ident,
                            signature |-> Signature(w.args),
                            borrows |-> Borrows(w.args),
                            invoke_args |-> InvokeArgs(w.args),
                            ret_typ |-> RetTyp(item_fn.output),
                            ret_is_result |-> RetIsResult(item_fn.output)]]

(***************************************************************************)
(* collect_lua_attr.                                                       *)
(***************************************************************************)
IsLuaAttr(attr) == Len(attr.path) = 1 /\ attr.path[1] = "lua"

VecRemoveNext(v, i) ==
    IF i + 1 >= Len(v) THEN [panic |-> TRUE, v |-> v]
    ELSE [panic |-> FALSE,
          v |-> [j \in 1..(Len(v) - 1) |-> IF j <= i + 1 THEN v[j] ELSE v[j + 1]]]

\* Vec::remove(i) with a 0-based index i: panics when i is out of bounds.
VecRemove(v, i) ==
    IF i >= Len(v) THEN [panic |-> TRUE, v |-> v]
    ELSE [panic |-> FALSE, v |-> [j \in 1..(Len(v) - 1) |-> IF j <= i THEN v[j] ELSE v[j + 1]]]

\* `for i in to_remove.into_iter() { attrs.remove(i); }`
RECURSIVE RemoveAll(_, _, _)
RemoveAll(v, to_remove, k) ==
    IF k > Len(to_remove) THEN [panic |-> FALSE, v |-> v]
    ELSE LET r == VecRemove(v, to_remove[k])
         IN  IF r.panic THEN r ELSE RemoveAll(r.v, to_remove, k + 1)

CollectLuaAttr(attrs) ==
    LET idx == SelectSeq([i \in 1..Len(attrs) |-> i], LAMBDA i : IsLuaAttr(attrs[i]))
        parsed == [k \in 1..Len(idx) |-> LuaFnAttrsParse(attrs[idx[k]].args)]
        to_remove == [k \in 1..Len(idx) |-> idx[k] - 1]
        removed == RemoveAll(attrs, to_remove, 1)
    IN  IF \E k \in 1..Len(idx) : ~parsed[k].ok
        THEN [panic |-> TRUE, attrs |-> attrs, lua |-> None]
        ELSE IF removed.panic
        THEN [panic |-> TRUE, attrs |-> removed.v, lua |-> None]
        ELSE IF Len(idx) > 1
        THEN [panic |-> TRUE, attrs |-> removed.v, lua |-> None]
        ELSE [panic |-> FALSE, attrs |-> removed.v,
              lua |-> IF Len(idx) = 0 THEN None ELSE Some(parsed[1].under)]

(***************************************************************************)
(* blackjack_lua_module2.                                                  *)
(***************************************************************************)
NoOutput == [emitted |-> FALSE, items |-> <<>>, new_items |-> <<>>, register_calls |-> <<>>]

\* The loop over the module's items: items are rewritten in place, new_items
\* collects one LuaFnDef per exported function.
RECURSIVE ProcessItems(_, _, _)
ProcessItems(items, i, new_items) ==
    IF i > Len(items) THEN [status |-> "ok", msg |-> "", items |-> items, new_items |-> new_items]
    ELSE IF items[i].kind = "fn"
    THEN LET c == CollectLuaAttr(items[i].attrs)
             item_fn == [items[i] EXCEPT !.attrs = c.attrs]
             items2 == [items EXCEPT ![i] = item_fn]
         IN  IF c.panic
             THEN [status |-> "panic", msg |-> "", items |-> items2, new_items |-> new_items]
             ELSE IF c.lua.some
             THEN LET a == AnalyzeLuaFn(item_fn, c.lua)
                  IN  IF a.status = "ok"
                      THEN ProcessItems(items2, i + 1, Append(new_items, a.def))
                      ELSE [status |-> a.status, msg |-> a.msg, items |-> items2,
                            new_items |-> new_items]
             ELSE ProcessItems(items2, i + 1, new_items)
    ELSE IF items[i].kind = "impl"
    THEN [status |-> "panic", msg |-> "", items |-> items, new_items |-> new_items]
    ELSE ProcessItems(items, i + 1, new_items)

BlackjackLuaModule2(m) ==
    IF ~m.inline THEN [status |-> "panic", msg |-> "", out |-> NoOutput]
    ELSE LET r == ProcessItems(m.items, 1, <<>>)
         IN  IF r.status # "ok" THEN [status |-> r.status, msg |-> r.msg, out |-> NoOutput]
             ELSE [status |-> "ok", msg |-> "",
                   out |-> [emitted |-> TRUE,
                            items |-> r.items,
                            new_items |-> r.new_items,
                            register_calls |->
                                [k \in 1..Len(r.new_items) |-> r.new_items[k].register_fn_ident]]]

(***************************************************************************)
(* The Lua runtime the emitted code runs against (mlua).                   *)
(***************************************************************************)
Handles == {"h1", "h2", "h3"}
HandleType == [h \in Handles |-> IF h = "h2" THEN PathT("Other") ELSE PathT("Mesh")]
TableNames == {"Ops", "Foo"}

Free == [shared |-> 0, excl |-> FALSE]

\* AnyUserData::borrow::<T>(): the type is checked first, then the RefCell.
TryBorrow(st, h, typ) ==
    IF HandleType[h] # typ THEN [ok |-> FALSE, err |-> "UserDataTypeMismatch", st |-> st]
    ELSE IF st[h].excl THEN [ok |-> FALSE, err |-> "UserDataBorrowError", st |-> st]
    ELSE [ok |-> TRUE, err |-> "", st |-> [st EXCEPT ![h].shared = @ + 1]]

\* AnyUserData::borrow_mut::<T>().
TryBorrowMut(st, h, typ) ==
    IF HandleType[h] # typ THEN [ok |-> FALSE, err |-> "UserDataTypeMismatch", st |-> st]
    ELSE IF st[h].excl \/ st[h].shared > 0
    THEN [ok |-> FALSE, err |-> "UserDataBorrowMutError", st |-> st]
    ELSE [ok |-> TRUE, err |-> "", st |-> [st EXCEPT ![h].excl = TRUE]]

\* Dropping a Ref / RefMut guard.
DropGuard(st, g) ==
    IF g.kind = "RefMut" THEN [st EXCEPT ![g.h].excl = FALSE]
    ELSE [st EXCEPT ![g.h].shared = @ - 1]

RECURSIVE DropAll(_, _)
DropAll(st, hl) == IF hl = <<>> THEN st ELSE DropAll(DropGuard(st, hl[Len(hl)]), SubSeq(hl, 1, Len(hl) - 1))

\* Whether a declared return type is Rust's Result, however its path is written.
Fallible(ret) == ret.tag = "path" /\ ret.segs[Len(ret.segs)].ident = "Result"

NativeErrors == {"NoFaces", "BadIndex"}

\* format!("{:?}", err): the Debug rendering of a native error.
ErrDebug(e) == IF e = "NoFaces" THEN "NoFaces" ELSE "BadIndex(7)"

NoNat == [tag |-> "none", v |-> ""]
NatVal(tag, v) == [tag |-> tag, v |-> v]

\* What the original function can return, by its declared return type.
NativeOutcomes(ret) ==
    IF ret.tag = "default" THEN {NatVal("Val", "unit")}
    ELSE IF Fallible(ret) THEN {NatVal("Ok", "42")} \cup {NatVal("Err", e) : e \in NativeErrors}
    ELSE {NatVal("Val", "42")}

NoResult == [tag |-> "none", kind |-> "", val |-> NoNat]
LuaOk(v) == [tag |-> "ok", kind |-> "", val |-> v]
LuaErr(kind, msg) == [tag |-> "err", kind |-> kind, val |-> NatVal("Msg", msg)]

NoCall == [w |-> 0, args |-> <<>>, k |-> 0, nat |-> NoNat]

(***************************************************************************)
(* The emitted code: registration.                                         *)
(***************************************************************************)
\* The routine a register call names.
RoutineOf(ident) == CHOOSE k \in 1..Len(output.new_items) :
                        output.new_items[k].register_fn_ident = ident

\* pub fn __blackjack_register_lua_fns(lua): entered.
StartRegister ==
    /\ genResult = "ok"
    /\ regPc = "idle"
    /\ regPc' = "run"
    /\ regIdx' = 1
    /\ UNCHANGED <<genVars, globals, regLog, callVars>>

\* One `#register_fn_ident(lua);` of the aggregate routine: the whole generated
\* registration routine, whose unwrap of globals().get("Ops") panics on a missing table.
RegisterFn ==
    /\ regPc = "run"
    /\ regIdx <= Len(output.register_calls)
    /\ LET w == RoutineOf(output.register_calls[regIdx])
           d == output.new_items[w]
       IN  /\ regLog' = Append(regLog, output.register_calls[regIdx])
           /\ IF d.table \in DOMAIN globals
              THEN /\ globals' = [globals EXCEPT ![d.table] =
                                     {e \in @ : e.key # d.key} \cup {[key |-> d.key, w |-> w]}]
                   /\ regIdx' = regIdx + 1
                   /\ regPc' = "run"
              ELSE /\ regPc' = "panic"
                   /\ UNCHANGED <<globals, regIdx>>
    /\ UNCHANGED <<genVars, callVars>>

\* The aggregate routine returns.
FinishRegister ==
    /\ regPc = "run"
    /\ regIdx > Len(output.register_calls)
    /\ regPc' = "done"
    /\ UNCHANGED <<genVars, globals, regIdx, regLog, callVars>>

(***************************************************************************)
(* The emitted code: a wrapper invocation (__inner).                       *)
(***************************************************************************)
\* The argument tuples Lua can pass: a handle for an AnyUserData slot.
ArgTuples(sig) ==
    {a \in [1..Len(sig) -> Handles \cup {"v"}] :
        \A i \in 1..Len(sig) : (a[i] \in Handles) <=> (sig[i].typ = AnyUserData)}

\* The emitted original function of a wrapper.
OriginalFn(d) == CHOOSE i \in 1..Len(output.items) :
                     output.items[i].kind = "fn" /\ output.items[i].ident = d.fn

\* Lua calls a registered function.
Invoke ==
    /\ regPc = "done"
    /\ pc = "idle"
    /\ \E t \in DOMAIN globals : \E e \in globals[t] :
         \E a \in ArgTuples(output.new_items[e.w].signature) :
            cur' = [w |-> e.w, args |-> a, k |-> 1, nat |-> NoNat]
    /\ pc' = "borrow"
    /\ result' = NoResult
    /\ mutated' = {}
    /\ UNCHANGED <<genVars, regVars, held, borrowSt>>

\* The `?` after borrow / borrow_mut.
QuestionMarkIgnores(r) == "continue"

QuestionMark(r) == IF r.ok THEN "continue" ELSE "return"

\* `let name = <guard>;` binds the guard to the end of __inner.
BindGuardTemporary(st0, r, hl, g) == [st |-> st0, held |-> hl]

BindGuard(st0, r, hl, g) == [st |-> r.st, held |-> Append(hl, g)]

\* The next borrow statement of __inner.
Resolve ==
    /\ pc = "borrow"
    /\ cur.k <= Len(output.new_items[cur.w].borrows)
    /\ LET b == output.new_items[cur.w].borrows[cur.k]
           h == cur.args[b.slot]
           r == IF b.kind = "Ref" THEN TryBorrow(borrowSt, h, b.typ)
                ELSE TryBorrowMut(borrowSt, h, b.typ)
           bound == BindGuard(borrowSt, r, held, [h |-> h, kind |-> b.kind, slot |-> b.slot])
       IN  IF QuestionMark(r) = "continue"
           THEN /\ cur' = [cur EXCEPT !.k = @ + 1]
                /\ borrowSt' = IF r.ok THEN bound.st ELSE borrowSt
                /\ held' = IF r.ok THEN bound.held ELSE held
                /\ UNCHANGED <<pc, result>>
           ELSE /\ result' = LuaErr(r.err, "")
                /\ pc' = "exit"
                /\ UNCHANGED <<cur, borrowSt, held>>
    /\ UNCHANGED <<genVars, regVars, mutated>>

\* call_fn_and_map_result.
MapResult(ret_is_result, nat) ==
    IF ret_is_result
    THEN IF nat.tag = "Ok" THEN LuaOk(NatVal("Val", nat.v))
         ELSE LuaErr("RuntimeError", ErrDebug(nat.v))
    ELSE LuaOk(nat)

\* The forwarding call and the conversion of its result.
CallOriginal ==
    /\ pc = "borrow"
    /\ cur.k > Len(output.new_items[cur.w].borrows)
    /\ LET d == output.new_items[cur.w]
       IN  \E nat \in NativeOutcomes(output.items[OriginalFn(d)].output) :
             /\ cur' = [cur EXCEPT !.nat = nat]
             /\ result' = MapResult(d.ret_is_result, nat)
             /\ mutated' = {held[i].h : i \in {j \in 1..Len(held) : held[j].kind = "RefMut"}}
    /\ pc' = "exit"
    /\ UNCHANGED <<genVars, regVars, held, borrowSt>>

\* The guards a returning __inner drops.
DropGuardsLeakOnError(st, hl, res) == IF res.tag = "err" THEN st ELSE DropAll(st, hl)

DropGuards(st, hl, res) == DropAll(st, hl)

\* __inner returns: its locals go out of scope.
Return ==
    /\ pc = "exit"
    /\ borrowSt' = DropGuards(borrowSt, held, result)
    /\ held' = <<>>
    /\ pc' = "idle"
    /\ UNCHANGED <<genVars, regVars, cur, mutated, result>>

(***************************************************************************)
(* The macro run: one application of blackjack_lua_module2.                *)
(***************************************************************************)
Generate ==
    /\ genResult = "none"
    /\ LET r == BlackjackLuaModule2(module)
       IN  /\ genResult' = r.status
           /\ genError' = r.msg
           /\ output' = r.out
    /\ UNCHANGED <<module, regVars, callVars>>

(***************************************************************************)
(* The modules the generation is explored on.                              *)
(***************************************************************************)
MeshSig == Inputs(<<Typed("ident", RefMutT("Mesh"))>>)

\* One function: any attribute list on a fixed signature.
AttrModules ==
    {Module(TRUE, <<Fn(attrs, 0, FALSE, MeshSig, R_Result)>>) :
        attrs \in SeqsUpTo(AttrShapes, MaxAttrs)}

\* One exported function: any signature.
SigModules ==
    {Module(TRUE, <<Fn(<<LuaOps>>, g, a, Inputs(s), r)>>) :
        g \in 0..1, a \in BOOLEAN, s \in InputShapes(ArgShapes), r \in RetTypes}

ExportedOps == Fn(<<LuaOps>>, 0, FALSE, MeshSig, R_Result)
ExportedFoo == Fn(<<AttrInline, LuaFoo>>, 0, FALSE, <<>>, R_i32)
ExportedNoUnder == Fn(<<LuaNoUnder>>, 0, FALSE, <<>>, NoRet)
PlainFn == Fn(<<AttrInline>>, 0, FALSE, <<>>, R_i32)
GenericFn == Fn(<<LuaOps>>, 1, FALSE, <<>>, R_i32)
AsyncFn == Fn(<<LuaOps>>, 0, TRUE, <<>>, R_i32)
MethodFn == Fn(<<LuaOps>>, 0, FALSE, Inputs(<<Receiver>>), R_i32)
TwiceFn == Fn(<<LuaOps, LuaFoo>>, 0, FALSE, <<>>, R_i32)

SampleItems == {ExportedOps, ExportedFoo, PlainFn, GenericFn, AsyncFn, MethodFn,
                TwiceFn, ImplItem, StructItem}

\* Several members; a module without a body (`mod m;`) has no items to scan.
ItemModules ==
    {Module(TRUE, shapes) : shapes \in SeqsUpTo(SampleItems, MaxItems)}
    \cup {Module(FALSE, <<>>)}

IdleRuntime ==
    /\ regPc = "idle"
    /\ regIdx = 0
    /\ regLog = <<>>
    /\ pc = "idle"
    /\ cur = NoCall
    /\ held = <<>>
    /\ borrowSt = [h \in Handles |-> Free]
    /\ mutated = {}
    /\ result = NoResult

InitGen ==
    /\ module \in AttrModules \cup SigModules \cup ItemModules
    /\ genResult = "none"
    /\ genError = ""
    /\ output = NoOutput
    /\ globals = [t \in {"Ops"} |-> {}]
    /\ IdleRuntime

NextGen == Generate

SpecGen == InitGen /\ [][NextGen]_vars

(***************************************************************************)
(* The macro run followed by the emitted code at run time.                 *)
(***************************************************************************)
RunArgShapes == {Typed("ident", t) : t \in {PathT("i32"), RefT("Mesh"), RefMutT("Mesh"),
                                            RefT("Other")}}
RunRetTypes == {NoRet, R_i32, R_Result, R_StdResult}

\* One exported function of any bridgeable signature.
SigRunModules ==
    {Module(TRUE, <<Fn(<<LuaOps>>, 0, FALSE, Inputs(s), r)>>) :
        s \in SeqsUpTo(RunArgShapes, MaxParams), r \in RunRetTypes}

\* Several members, exported under different namespaces or not at all.
RegRunModules ==
    {Module(TRUE, shapes) :
        shapes \in SeqsUpTo({ExportedOps, ExportedFoo, ExportedNoUnder, PlainFn, StructItem},
                            MaxItems)}

Init ==
    /\ module \in SigRunModules \cup RegRunModules
    /\ genResult = "none"
    /\ genError = ""
    /\ output = NoOutput
    /\ \E T \in SUBSET TableNames : globals = [t \in T |-> {}]
    /\ IdleRuntime

Next ==
    \/ Generate
    \/ StartRegister
    \/ RegisterFn
    \/ FinishRegister
    \/ Invoke
    \/ Resolve
    \/ CallOriginal
    \/ Return

Spec == Init /\ [][Next]_vars

(***************************************************************************)
(* Properties of the generation.                                           *)
(***************************************************************************)
Ran == genResult # "none"
Items == module.items

LuaCount(it) == Cardinality({i \in 1..Len(it.attrs) : it.attrs[i].path = <<"lua">>})
WellFormed(it) ==
    \A i \in 1..Len(it.attrs) :
        it.attrs[i].path = <<"lua">> =>
            \A k \in 1..Len(it.attrs[i].args) :
                it.attrs[i].args[k].key = "under" => it.attrs[i].args[k].isStr
OtherAttrs(it) == SelectSeq(it.attrs, LAMBDA a : a.path # <<"lua">>)
HasReceiver(it) == \E i \in 1..Len(it.inputs) : it.inputs[i].kind = "receiver"
Unbridgeable(it) == it.generics > 0 \/ it.asyncness \/ HasReceiver(it)
PlainPatterns(it) == \A i \in 1..Len(it.inputs) : it.inputs[i].pat \in {"ident", "self"}

\* A member the macro passes without failing.
Passes(it) ==
    \/ it.kind = "other"
    \/ /\ it.kind = "fn"
       /\ WellFormed(it)
       /\ LuaCount(it) <= 1
       /\ LuaCount(it) = 1 => (~Unbridgeable(it) /\ PlainPatterns(it))
PassBefore(i) == module.inline /\ \A j \in 1..(i - 1) : Passes(Items[j])

WrapperOf(name) == {k \in 1..Len(output.new_items) : output.new_items[k].fn = name}

\* C6: the wrapper of every accepted declaration has the original's parameters, in
\* order and by name; an Owned slot (non-reference type) keeps the declared type, a
\* SharedRef (&T) or ExclusiveRef (&mut T) slot has the opaque-handle type.
C6_WrapperSignature ==
    genResult = "ok" =>
        \A i \in 1..Len(Items) :
            (Items[i].kind = "fn" /\ LuaCount(Items[i]) = 1) =>
                /\ Cardinality(WrapperOf(Items[i].ident)) = 1
                /\ \A k \in WrapperOf(Items[i].ident) :
                    LET d == output.new_items[k]
                        ins == Items[i].inputs
                    IN  /\ Len(d.signature) = Len(ins)
                        /\ Len(d.invoke_args) = Len(ins)
                        /\ \A p \in 1..Len(ins) :
                            /\ d.signature[p].name = ins[p].name
                            /\ d.invoke_args[p].name = ins[p].name
                            /\ ins[p].ty.tag # "ref" =>
                                   /\ d.signature[p].typ = ins[p].ty
                                   /\ d.invoke_args[p].kind = "Owned"
                            /\ (ins[p].ty.tag = "ref" /\ ~ins[p].ty.mut) =>
                                   /\ d.signature[p].typ = AnyUserData
                                   /\ d.invoke_args[p].kind = "Ref"
                            /\ (ins[p].ty.tag = "ref" /\ ins[p].ty.mut) =>
                                   /\ d.signature[p].typ = AnyUserData
                                   /\ d.invoke_args[p].kind = "RefMut"

C6_Witness ==
    /\ genResult = "ok"
    /\ Len(output.new_items) = 1
    /\ Len(Items[1].inputs) = 2
    /\ Items[1].inputs[1].ty = PathT("i32")
    /\ Items[1].inputs[2].ty = RefMutT("Mesh")
    /\ output.new_items[1].signature =
           <<[name |-> "p1", typ |-> PathT("i32")], [name |-> "p2", typ |-> AnyUserData]>>

\* C7: a module holding an exported declaration that is generic, async or has a
\* receiver yields a failure and no output, wherever the declaration stands; when the
\* members before it pass, the failure is the error analyze_lua_fn returns.
C7_RejectionSet ==
    Ran =>
        \A i \in 1..Len(Items) :
            (Items[i].kind = "fn" /\ LuaCount(Items[i]) >= 1 /\ Unbridgeable(Items[i])) =>
                /\ genResult \in {"err", "panic"}
                /\ output = NoOutput
                /\ (PassBefore(i) /\ LuaCount(Items[i]) = 1 /\ WellFormed(Items[i])) =>
                       /\ genResult = "err"
                       /\ genError # ""

C7_Witness ==
    /\ genResult = "err"
    /\ Len(Items) = 3
    /\ Items[1].kind = "fn" /\ LuaCount(Items[1]) = 1 /\ ~Unbridgeable(Items[1])
    /\ Items[2].kind = "fn" /\ LuaCount(Items[2]) = 1 /\ ~Unbridgeable(Items[2])
    /\ Items[3].kind = "fn" /\ LuaCount(Items[3]) = 1 /\ Items[3].asyncness
    /\ output = NoOutput

\* C8: two or more #[lua] annotations on a declaration, anywhere among its
\* attributes, are fatal (a panic when the members before it pass) and nothing is
\* emitted; exactly one (well-formed) annotation exports the declaration, the
\* annotation removed and the other attributes kept in order; none leaves the
\* declaration unexported with its attributes unchanged.
C8_OneAnnotation ==
    Ran =>
        /\ \A i \in 1..Len(Items) :
            (Items[i].kind = "fn" /\ LuaCount(Items[i]) >= 2) =>
                /\ genResult \in {"err", "panic"}
                /\ output = NoOutput
                /\ PassBefore(i) => genResult = "panic"
        /\ (module.inline /\ \A i \in 1..Len(Items) : Passes(Items[i])) => genResult = "ok"
        /\ genResult = "ok" =>
            /\ Len(output.items) = Len(Items)
            /\ \A i \in 1..Len(Items) :
                Items[i].kind = "fn" =>
                    /\ output.items[i].attrs = OtherAttrs(Items[i])
                    /\ output.items[i] = [Items[i] EXCEPT !.attrs = OtherAttrs(Items[i])]
                    /\ LuaCount(Items[i]) = 1 => Cardinality(WrapperOf(Items[i].ident)) = 1
                    /\ LuaCount(Items[i]) = 0 =>
                           /\ WrapperOf(Items[i].ident) = {}
                           /\ output.items[i] = Items[i]

C8_Witness ==
    /\ genResult = "panic"
    /\ output = NoOutput
    /\ Len(Items) = 1
    /\ Items[1].attrs = <<LuaOps, AttrInline, LuaFoo>>

(***************************************************************************)
(* Properties of the emitted code at run time.                             *)
(***************************************************************************)
\* The declaration, as written in the module, of the function named `name`.
Declared(name) == Items[CHOOSE i \in 1..Len(Items) :
                            Items[i].kind = "fn" /\ Items[i].ident = name]

\* The `under` value a declaration's annotation names (None when the key is absent).
UnderOf(it) ==
    LET a == it.attrs[CHOOSE i \in 1..Len(it.attrs) : it.attrs[i].path = <<"lua">>]
        ks == {k \in 1..Len(a.args) : a.args[k].key = "under"}
    IN  IF ks = {} THEN None ELSE Some(a.args[CHOOSE k \in ks : TRUE].val)

\* The registration routines that ran to completion.
Completed == IF regPc = "panic" THEN 1..(Len(regLog) - 1) ELSE 1..Len(regLog)

InTable(t, key) == t \in DOMAIN globals /\ \E e \in globals[t] : e.key = key

\* C1: a registration routine that ran put its wrapper, keyed by the function's
\* name, into the table its annotation names with `under`.
C1_RegisteredUnderNamespace ==
    \A k \in Completed :
        LET d == output.new_items[RoutineOf(regLog[k])]
            u == UnderOf(Declared(d.fn))
        IN  u.some => InTable(u.val, d.fn)

\* C2: a registration routine never fails on a missing table: every routine that
\* was invoked has its wrapper registered in a table.
C2_CreateOnDemand ==
    /\ regPc # "panic"
    /\ \A k \in 1..Len(regLog) :
        \E t \in DOMAIN globals :
            InTable(t, output.new_items[RoutineOf(regLog[k])].key)

\* The registration identifiers of the exported declarations, in declaration order.
ExportedIdents ==
    LET ex == SelectSeq(Items, LAMBDA it : it.kind = "fn" /\ LuaCount(it) = 1)
    IN  [k \in 1..Len(ex) |-> <<"__blackjack_export_", ex[k].ident, "_to_lua">>]

\* C3: one call of the aggregate routine invokes the registration routine of every
\* exported declaration exactly once, in declaration order, and no other.
C3_AggregateCallsAll ==
    regPc \in {"done", "panic"} => regLog = ExportedIdents

\* An aggregate routine that returns has made exactly those calls, and at any moment
\* the calls made are the first of them: the shortfall of C3 is the panic alone.
AggregateOrderWhenDone ==
    /\ regPc = "done" => regLog = ExportedIdents
    /\ genResult = "ok" => output.register_calls = ExportedIdents
    /\ Len(regLog) <= Len(ExportedIdents)
    /\ \A k \in 1..Len(regLog) : regLog[k] = ExportedIdents[k]

\* The invocation in flight (or the last one).
Called == cur.w > 0
CurDef == output.new_items[cur.w]
CurIns == Declared(CurDef.fn).inputs
Pointee(ty) == [ty EXCEPT !.tag = "path", !.mut = FALSE]
RefSlots == {p \in 1..Len(CurIns) : CurIns[p].ty.tag = "ref"}
HeldSlots == {held[i].slot : i \in 1..Len(held)}
BorrowViolations == {"UserDataBorrowError", "UserDataBorrowMutError"}
ResolutionErrors == BorrowViolations \cup {"UserDataTypeMismatch"}
ResolutionFailed == result.tag = "err" /\ result.kind \in ResolutionErrors
NativeInvoked == cur.nat # NoNat

\* The parameter whose resolution failed: the reference parameters before it resolved.
FailedSlot == CHOOSE p \in RefSlots : Cardinality({q \in RefSlots : q < p}) = cur.k - 1

\* Two reference parameters given the same handle, at least one of them exclusive.
AliasedPairs ==
    {pr \in RefSlots \X RefSlots :
        /\ pr[1] < pr[2]
        /\ cur.args[pr[1]] = cur.args[pr[2]]
        /\ CurIns[pr[1]].ty.mut \/ CurIns[pr[2]].ty.mut}

\* C4 as stated: with an aliased pair the later resolution fails with a borrow
\* violation, the wrapper returns it and the original function is not invoked.
C4_LaterFailsWithBorrowViolation ==
    (Called /\ pc = "exit") =>
        \A pr \in AliasedPairs :
            /\ ResolutionFailed
            /\ result.kind \in BorrowViolations
            /\ FailedSlot = pr[2]
            /\ ~NativeInvoked

\* C4 amended: with an aliased pair the two resolutions never both succeed, the
\* wrapper returns an error and the original function is not invoked; the failure is
\* at or before the later parameter, and is a borrow violation when it is at the
\* later parameter and that parameter's pointee type is the handle's type (a type
\* mismatch otherwise).  A borrow violation only ever comes from an earlier parameter
\* of the same call holding the handle in a conflicting mode, so two SharedRef
\* resolutions of a handle do not conflict.
C4_Exclusivity ==
    Called =>
        /\ \A pr \in AliasedPairs : ~({pr[1], pr[2]} \subseteq HeldSlots)
        /\ (pc = "exit" /\ AliasedPairs # {}) =>
               /\ ResolutionFailed
               /\ ~NativeInvoked
               /\ mutated = {}
               /\ \A pr \in AliasedPairs :
                    /\ FailedSlot <= pr[2]
                    /\ FailedSlot = pr[2] =>
                         IF HandleType[cur.args[pr[2]]] = Pointee(CurIns[pr[2]].ty)
                         THEN result.kind = (IF CurIns[pr[2]].ty.mut
                                             THEN "UserDataBorrowMutError"
                                             ELSE "UserDataBorrowError")
                         ELSE result.kind = "UserDataTypeMismatch"
        /\ (pc = "exit" /\ ResolutionFailed /\ result.kind \in BorrowViolations) =>
               \E pr \in AliasedPairs : pr[2] = FailedSlot /\ pr[1] \in HeldSlots

C4_Witness ==
    /\ pc = "exit"
    /\ Len(CurIns) = 2
    /\ CurIns[1].ty = RefT("Mesh")
    /\ CurIns[2].ty = RefMutT("Mesh")
    /\ cur.args = <<"h1", "h1">>
    /\ result.kind = "UserDataBorrowMutError"
    /\ HeldSlots = {1}
    /\ ~NativeInvoked

\* C5: for a declaration whose return type is fallible, a native failure makes the
\* wrapper return a runtime error carrying the failure's rendering, and a native
\* success makes it return the success payload.
C5_FallibleMapping ==
    (Called /\ pc = "exit" /\ NativeInvoked /\ Fallible(Declared(CurDef.fn).output)) =>
        /\ cur.nat.tag = "Err" =>
               /\ result.tag = "err"
               /\ result.kind = "RuntimeError"
               /\ result.val.v = ErrDebug(cur.nat.v)
        /\ cur.nat.tag = "Ok" =>
               /\ result.tag = "ok"
               /\ result.val.v = cur.nat.v

\* C9: when the original function is invoked every reference parameter has been
\* resolved, from the handle passed in its slot, in its mode and at its pointee type;
\* a failed resolution makes the wrapper return an error without invoking the
\* original function, so no object is mutated.
C9_ResolveBeforeCall ==
    Called =>
        /\ (pc = "exit" /\ NativeInvoked) =>
               \A p \in RefSlots :
                   \E i \in 1..Len(held) :
                       /\ held[i].slot = p
                       /\ held[i].h = cur.args[p]
                       /\ held[i].kind = (IF CurIns[p].ty.mut THEN "RefMut" ELSE "Ref")
                       /\ HandleType[held[i].h] = Pointee(CurIns[p].ty)
        /\ (pc \in {"exit", "idle"}
               /\ \E p \in RefSlots : HandleType[cur.args[p]] # Pointee(CurIns[p].ty)) =>
               /\ ResolutionFailed
               /\ ~NativeInvoked
               /\ mutated = {}
        /\ ResolutionFailed => (~NativeInvoked /\ mutated = {})
        /\ mutated # {} => NativeInvoked

C9_Witness ==
    /\ pc = "exit"
    /\ Len(CurIns) = 2
    /\ CurIns[1].ty = RefMutT("Mesh")
    /\ cur.args = <<"h1", "h2">>
    /\ CurIns[2].ty = RefMutT("Mesh")
    /\ result.kind = "UserDataTypeMismatch"
    /\ HeldSlots = {1}
    /\ ~NativeInvoked

\* The borrow state the guards in `held` account for.
HeldState(h) ==
    [shared |-> Cardinality({i \in 1..Len(held) : held[i].h = h /\ held[i].kind = "Ref"}),
     excl |-> \E i \in 1..Len(held) : held[i].h = h /\ held[i].kind = "RefMut"]

\* C10: the only borrows outstanding on a handle are the guards of the invocation in
\* flight, and once an invocation has returned, on any exit path, none is: a later
\* call finds every handle free.
C10_BorrowsReleased ==
    /\ \A h \in Handles : borrowSt[h] = HeldState(h)
    /\ pc = "idle" => (held = <<>> /\ \A h \in Handles : borrowSt[h] = Free)

C10_Witness ==
    /\ pc = "idle"
    /\ Called
    /\ ResolutionFailed
    /\ cur.k = 2
    /\ CurIns[1].ty = RefMutT("Mesh")
    /\ cur.args[1] = "h1"
    /\ borrowSt["h1"] = Free

====
